---- MODULE Spec2Model ----
(***************************************************************************)
(* Model of tools/tag_release.py: the release-tagging procedure main() and *)
(* the version rewriter update_util_version().                             *)
(*                                                                         *)
(* Text (the target file, the version string, tag names, messages, the     *)
(* output of git status) is a sequence of one-character strings.           *)
(* I/O failures of read_text / write_text are outside the model.           *)
(***************************************************************************)
EXTENDS Integers, Sequences, FiniteSets

VARIABLES pc, args, file, file0, changed, exitCode, log, calls, repo

vars == <<pc, args, file, file0, changed, exitCode, log, calls, repo>>

----------------------------------------------------------------------------
(* Bounds *)

MaxLines == 2
MaxVerLen == 1
MaxCalls == 2

----------------------------------------------------------------------------
(* Characters and text helpers *)

SQ == "'"
DQ == "\""
NL == "\n"

IsQuote(c) == c \in {SQ, DQ}

IsSpace(c) == c \in {" ", NL, "\t"}

MinOf(S) == CHOOSE x \in S : \A y \in S : x <= y

\* position of the first character at or after i that is not whitespace
\* (Len(s)+1 when there is none): where a greedy \s* started at i must stop
\* for the following literal to match
RECURSIVE SkipSpace(_, _)
SkipSpace(s, i) ==
    IF i > Len(s) \/ ~IsSpace(s[i]) THEN i ELSE SkipSpace(s, i + 1)

\* position of the first quote at or after i (Len(s)+1 when there is none):
\* where a greedy [^'"]+ started at i must stop for the closing quote to match
RECURSIVE SkipNonQuote(_, _)
SkipNonQuote(s, i) ==
    IF i > Len(s) \/ IsQuote(s[i]) THEN i ELSE SkipNonQuote(s, i + 1)

HasLit(s, i, lit) ==
    /\ i + Len(lit) - 1 <= Len(s)
    /\ \A k \in 1..Len(lit) : s[i + k - 1] = lit[k]

HasChar(s, i, C) == i >= 1 /\ i <= Len(s) /\ s[i] \in C

\* re.M: ^ matches at the start of the text and right after each newline
AtLineStart(s, i) == i = 1 \/ (i > 1 /\ i - 1 <= Len(s) /\ s[i - 1] = NL)

\* str.strip(): drop leading and trailing whitespace
strip(s) ==
    LET keep == {i \in 1..Len(s) : ~IsSpace(s[i])}
    IN  IF keep = {} THEN <<>>
        ELSE SubSeq(s, MinOf(keep), CHOOSE x \in keep : \A y \in keep : y <= x)

\* v occurs in s as a contiguous substring
Contains(s, v) == \E i \in 1..(Len(s) + 1) : HasLit(s, i, v)

VERSION == <<"v", "e", "r", "s", "i", "o", "n">>

----------------------------------------------------------------------------
(* The two regular expressions of update_util_version *)

\* A match: start of the whole match, position q1 of the opening quote
\* (group 2) and position q2 of the closing quote (group 4, the last
\* character of the match).
NoMatch == [found |-> FALSE, start |-> 0, q1 |-> 0, q2 |-> 0]

\* (['"])([^'"]+)(['"]) with the opening quote at c
ValueAt(s, i, c) ==
    LET d == SkipNonQuote(s, c + 1)
    IN  IF HasChar(s, c, {SQ, DQ}) /\ d > c + 1 /\ d <= Len(s)
        THEN [found |-> TRUE, start |-> i, q1 |-> c, q2 |-> d]
        ELSE NoMatch

\* (^\s*version\s*=\s*)(['"])([^'"]+)(['"]) matched at position i
assign_re_match(s, i) ==
    LET a == SkipSpace(s, i)
        b == SkipSpace(s, a + Len(VERSION))
        c == SkipSpace(s, b + 1)
    IN  IF AtLineStart(s, i) /\ HasLit(s, a, VERSION) /\ HasChar(s, b, {"="})
        THEN ValueAt(s, i, c)
        ELSE NoMatch

\* (['"]version['"]\s*:\s*)(['"])([^'"]+)(['"]) matched at position i
dict_re_match(s, i) ==
    LET k == i + 1 + Len(VERSION)
        b == SkipSpace(s, k + 1)
        c == SkipSpace(s, b + 1)
    IN  IF /\ HasChar(s, i, {SQ, DQ})
           /\ HasLit(s, i + 1, VERSION)
           /\ HasChar(s, k, {SQ, DQ})
           /\ HasChar(s, b, {":"})
        THEN ValueAt(s, i, c)
        ELSE NoMatch

\* pattern.search from position i on: the match at the leftmost position
RECURSIVE assign_re_from(_, _)
assign_re_from(txt, i) ==
    IF i > Len(txt) THEN NoMatch
    ELSE IF assign_re_match(txt, i).found THEN assign_re_match(txt, i)
    ELSE assign_re_from(txt, i + 1)

RECURSIVE dict_re_from(_, _)
dict_re_from(txt, i) ==
    IF i > Len(txt) THEN NoMatch
    ELSE IF dict_re_match(txt, i).found THEN dict_re_match(txt, i)
    ELSE dict_re_from(txt, i + 1)

\* assign_re.search(txt)
assign_re(txt) == assign_re_from(txt, 1)

\* dict_re.search(txt)
dict_re(txt) == dict_re_from(txt, 1)

\* match.group(n), n in 1..4
group(txt, m, n) ==
    CASE n = 1 -> SubSeq(txt, m.start, m.q1 - 1)
      [] n = 2 -> <<txt[m.q1]>>
      [] n = 3 -> SubSeq(txt, m.q1 + 1, m.q2 - 1)
      [] n = 4 -> <<txt[m.q2]>>

\* pattern.sub(repl, txt, count=1): the first match replaced by repl
sub_count1(txt, m, repl) ==
    SubSeq(txt, 1, m.start - 1) \o repl \o SubSeq(txt, m.q2 + 1, Len(txt))

\* _assign_repl losing the closing quote
assign_repl_no_close(txt, match, new_version) ==
    group(txt, match, 1) \o group(txt, match, 2) \o new_version

\* _dict_repl writing double quotes whatever the file had
dict_repl_requote(txt, match, new_version) ==
    group(txt, match, 1) \o <<DQ>> \o new_version \o <<DQ>>

\* the mapping-entry pattern tried first
select_pattern_dict_first(txt) ==
    IF dict_re_from(txt, 1).found THEN "dict"
    ELSE IF assign_re_from(txt, 1).found THEN "assign"
    ELSE "none"

assign_repl(txt, match, new_version) ==
    group(txt, match, 1) \o group(txt, match, 2) \o new_version
        \o group(txt, match, 4)

dict_repl(txt, match, new_version) ==
    group(txt, match, 1) \o group(txt, match, 2) \o new_version
        \o group(txt, match, 4)

\* which pattern update_util_version uses on txt
select_pattern(txt) ==
    IF assign_re(txt).found THEN "assign"
    ELSE IF dict_re(txt).found THEN "dict"
    ELSE "none"

\* the version entry not found, silently skipped
not_found_skipped(txt) ==
    [ret |-> "False", txt |-> txt, wrote |-> FALSE, used |-> "none", m |-> NoMatch]

\* lines 69-71: neither pattern matches, raise SystemExit(2)
not_found(txt) ==
    [ret |-> "SystemExit", txt |-> txt, wrote |-> FALSE, used |-> "none",
     m |-> NoMatch]

\* update_util_version(new_version) on a file holding txt: the returned value
\* ("True", "False", or "SystemExit" for raise SystemExit(2)), the text of the
\* file afterwards and whether write_text was called
update_util_version(txt, new_version) ==
    LET used == select_pattern(txt)
        m    == IF used = "assign" THEN assign_re(txt)
                ELSE IF used = "dict" THEN dict_re(txt) ELSE NoMatch
    IN  IF used = "none"
        THEN not_found(txt)
        ELSE IF group(txt, m, 3) = new_version
        THEN [ret |-> "False", txt |-> txt, wrote |-> FALSE,
              used |-> used, m |-> m]
        ELSE [ret |-> "True",
              txt |-> IF used = "assign"
                      THEN sub_count1(txt, m, assign_repl(txt, m, new_version))
                      ELSE sub_count1(txt, m, dict_repl(txt, m, new_version)),
              wrote |-> TRUE, used |-> used, m |-> m]

----------------------------------------------------------------------------
(* Inputs: file contents, version strings, command-line flags *)

LineAssignDQ   == VERSION \o <<" ", "=", " ", DQ, "1", DQ>>
LineAssignSQ   == <<" ">> \o VERSION \o <<"=", SQ, "1", SQ>>
LineAssignMix  == VERSION \o <<" ", "=", " ", SQ, "1", DQ>>
LineAssignOpen == VERSION \o <<" ", "=">>
LineDictDQ     == <<"{", DQ>> \o VERSION
                    \o <<DQ, ":", " ", DQ, "1", DQ, ",", DQ, "n", DQ, ":", DQ, "x", DQ, "}">>
LineDictSQ     == <<SQ>> \o VERSION \o <<SQ, " ", ":", SQ, "2", SQ>>
LineDictMix    == <<DQ>> \o VERSION \o <<DQ, ":", " ", SQ, "1", DQ>>
LineDictKeyMix == <<SQ>> \o VERSION \o <<DQ, ":", DQ, "2", DQ>>
LineNotAtStart == <<"x">> \o VERSION \o <<"=", DQ, "1", DQ>>
LineUnquoted   == VERSION \o <<"=", "1">>
LineOther      == <<"n", "=", DQ, "x", DQ>>
LineEmptyValue == VERSION \o <<"=", DQ, DQ>>
LineBlank      == <<>>

Lines ==
    { LineAssignDQ, LineAssignSQ, LineAssignMix, LineAssignOpen, LineDictDQ,
      LineDictSQ, LineDictMix, LineDictKeyMix, LineNotAtStart, LineUnquoted,
      LineOther, LineEmptyValue, LineBlank }

RECURSIVE JoinLines(_)
JoinLines(ls) ==
    IF Len(ls) = 0 THEN <<>>
    ELSE IF Len(ls) = 1 THEN ls[1]
    ELSE ls[1] \o <<NL>> \o JoinLines(Tail(ls))

\* files of one to MaxLines lines
Texts == { JoinLines(ls) : ls \in UNION { [1..n -> Lines] : n \in 1..MaxLines } }

\* a version that carries the start of an assignment on a line of its own
VersionInject == <<NL>> \o VERSION \o <<"=">>

VerChars == {"1", "2", SQ}

\* argparse takes any string as the positional version, the empty one included
Versions ==
    UNION { [1..n -> VerChars] : n \in 0..MaxVerLen } \cup {VersionInject}

\* --tag-name: absent (None), or given with a value
None == [given |-> FALSE, value |-> <<>>]
TagNameArgs ==
    { None } \cup { [given |-> TRUE, value |-> v] : v \in {<<>>, <<"v", "1">>, <<"r", "c">>} }

Args ==
    [ version : Versions, annotated : BOOLEAN, push : BOOLEAN,
      allow_dirty : BOOLEAN, tag_name : TagNameArgs ]

\* what git status --porcelain can print: one line per changed path
StatusOutputs ==
    { <<>>,
      <<" ", "M", " ", "u", NL>>,
      <<"?", "?", " ", "n", NL>> }

\* the completed process of git status: return code and captured stdout
StatusResults == [ returncode : {0, 128}, stdout : StatusOutputs ]

UTIL_PATH == <<"plugin/util.py">>
HEAD == <<"HEAD">>
ORIGIN == <<"origin">>

\* tag_name = args.tag_name or args.version
tag_name(a) ==
    IF a.tag_name.given /\ a.tag_name.value # <<>> THEN a.tag_name.value
    ELSE a.version

\* f"Bump version to {args.version}"
commit_message(a) ==
    <<"B", "u", "m", "p", " ", "v", "e", "r", "s", "i", "o", "n", " ", "t", "o", " ">>
        \o a.version

\* f"Release {tag_name}"
tag_message(a) == <<"R", "e", "l", "e", "a", "s", "e", " ">> \o tag_name(a)

\* git_is_clean() deciding by the return code instead of the output
git_is_clean_by_returncode(res) == res.returncode = 0

\* git_is_clean(): res.stdout.strip() == ""
git_is_clean(res) == strip(res.stdout) = <<>>

----------------------------------------------------------------------------
(* State: pc is the position in main(); exitCode is <<>> while the process
   runs and <<code>> once it has exited *)

\* one entry of the log of side effects: a git command or a write of the file
Entry(op, arg, annotated, msg, ok, out) ==
    [op |-> op, arg |-> arg, annotated |-> annotated, msg |-> msg, ok |-> ok,
     out |-> out]

\* the repository as this run changes it: commits added to the local head, tags
\* created, the commit the remote branch was moved to (none yet: <<>>) and the
\* tags pushed
Repo0 == [commits |-> 0, tags |-> {}, remoteHead |-> <<>>, remoteTags |-> {}]

\* one call of update_util_version
Call(txt, new_version, r) ==
    [before |-> txt, new_version |-> new_version, ret |-> r.ret,
     after |-> r.txt, wrote |-> r.wrote, used |-> r.used, m |-> r.m]

\* main() is started on a file of one line; update_util_version() on its own
\* (InitRewrite) is given the files of up to MaxLines lines
Init ==
    /\ pc = "check"
    /\ args \in Args
    /\ file \in Lines
    /\ file0 = file
    /\ changed = FALSE
    /\ exitCode = <<>>
    /\ log = <<>>
    /\ calls = <<>>
    /\ repo = Repo0

\* the exit status of raise SystemExit(2) in update_util_version
NotFoundExit == 2

\* sys.exit(code) / raise SystemExit(code)
Exit(code) == pc' = "done" /\ exitCode' = <<code>>

----------------------------------------------------------------------------
(* main() *)

\* line 85 with --allow-dirty: git_is_clean() is not evaluated
SkipCleanCheck ==
    /\ pc = "check"
    /\ args.allow_dirty
    /\ pc' = "rewrite"
    /\ UNCHANGED <<args, file, file0, changed, exitCode, log, calls, repo>>

\* lines 85-87: git status --porcelain, run without check=True
CleanCheck ==
    /\ pc = "check"
    /\ ~args.allow_dirty
    /\ \E res \in StatusResults :
         /\ log' = Append(log, Entry("status", <<>>, FALSE, <<>>,
                                     res.returncode = 0, res.stdout))
         /\ IF git_is_clean(res)
            THEN pc' = "rewrite" /\ UNCHANGED exitCode
            ELSE Exit(1)
    /\ UNCHANGED <<args, file, file0, changed, calls, repo>>

\* lines 89-96: changed = update_util_version(args.version)
Rewrite ==
    /\ pc = "rewrite"
    /\ LET r == update_util_version(file, args.version)
       IN  /\ calls' = Append(calls, Call(file, args.version, r))
           /\ file' = r.txt
           /\ log' = IF r.wrote
                     THEN Append(log, Entry("write", UTIL_PATH, FALSE, <<>>, TRUE, <<>>))
                     ELSE log
           /\ IF r.ret = "SystemExit"
              THEN Exit(NotFoundExit) /\ UNCHANGED changed
              ELSE /\ changed' = (r.ret = "True")
                   /\ pc' = "stage"
                   /\ UNCHANGED exitCode
    /\ UNCHANGED <<args, file0, repo>>

\* lines 99-100: run(["git", "add", str(UTIL_PATH)])
GitAdd ==
    /\ pc = "stage"
    /\ changed
    /\ \E ok \in BOOLEAN :
         /\ log' = Append(log, Entry("add", UTIL_PATH, FALSE, <<>>, ok, <<>>))
         /\ IF ok THEN pc' = "commit" /\ UNCHANGED exitCode ELSE Exit(1)
    /\ UNCHANGED <<args, file, file0, changed, calls, repo>>

\* the commit made even when nothing changed
NoCommitEmptyCommit ==
    /\ pc = "stage"
    /\ ~changed
    /\ pc' = "commit"
    /\ UNCHANGED <<args, file, file0, changed, exitCode, log, calls, repo>>

\* lines 103-104: no util.py change to commit
NoCommit ==
    /\ pc = "stage"
    /\ ~changed
    /\ pc' = "tag"
    /\ UNCHANGED <<args, file, file0, changed, exitCode, log, calls, repo>>

\* line 101: run(["git", "commit", "-m", f"Bump version to {args.version}"])
GitCommit ==
    /\ pc = "commit"
    /\ \E ok \in BOOLEAN :
         /\ log' = Append(log, Entry("commit", <<>>, FALSE, commit_message(args), ok, <<>>))
         /\ IF ok
            THEN /\ repo' = [repo EXCEPT !.commits = @ + 1]
                 /\ pc' = "tag"
                 /\ UNCHANGED exitCode
            ELSE Exit(1) /\ UNCHANGED repo
    /\ UNCHANGED <<args, file, file0, changed, calls>>

\* the push done whether or not --push was given
AfterTagAlwaysPush(a) == "push_head"

\* where main() goes once the tag is created (line 113)
AfterTag(a) == IF a.push THEN "push_head" ELSE "done"

\* lines 107-111: git tag -a <tag_name> -m <message>, or git tag <tag_name>
GitTag ==
    /\ pc = "tag"
    /\ \E ok \in BOOLEAN :
         /\ log' = Append(log,
                IF args.annotated
                THEN Entry("tag", tag_name(args), TRUE, tag_message(args), ok, <<>>)
                ELSE Entry("tag", tag_name(args), FALSE, <<>>, ok, <<>>))
         /\ IF ok
            THEN /\ repo' = [repo EXCEPT !.tags = @ \cup {tag_name(args)}]
                 /\ pc' = AfterTag(args)
                 /\ exitCode' = IF AfterTag(args) = "done" THEN <<0>> ELSE exitCode
            ELSE Exit(1) /\ UNCHANGED repo
    /\ UNCHANGED <<args, file, file0, changed, calls>>

\* line 114: run(["git", "push", "origin", "HEAD"])
PushHead ==
    /\ pc = "push_head"
    /\ \E ok \in BOOLEAN :
         /\ log' = Append(log, Entry("push", HEAD, FALSE, <<>>, ok, ORIGIN))
         /\ IF ok
            THEN /\ repo' = [repo EXCEPT !.remoteHead = <<repo.commits>>]
                 /\ pc' = "push_tag"
                 /\ UNCHANGED exitCode
            ELSE Exit(1) /\ UNCHANGED repo
    /\ UNCHANGED <<args, file, file0, changed, calls>>

\* lines 115-116: run(["git", "push", "origin", tag_name])
PushTag ==
    /\ pc = "push_tag"
    /\ \E ok \in BOOLEAN :
         /\ log' = Append(log, Entry("push", tag_name(args), FALSE, <<>>, ok, ORIGIN))
         /\ IF ok
            THEN /\ repo' = [repo EXCEPT !.remoteTags = @ \cup {tag_name(args)}]
                 /\ Exit(0)
            ELSE Exit(1) /\ UNCHANGED repo
    /\ UNCHANGED <<args, file, file0, changed, calls>>

Next ==
    \/ SkipCleanCheck
    \/ CleanCheck
    \/ Rewrite
    \/ GitAdd
    \/ NoCommit
    \/ GitCommit
    \/ GitTag
    \/ PushHead
    \/ PushTag

Spec == Init /\ [][Next]_vars

----------------------------------------------------------------------------
(* update_util_version() called on its own, MaxCalls times on the same file *)

ArgsRewrite ==
    [ version : Versions, annotated : {FALSE}, push : {FALSE},
      allow_dirty : {FALSE}, tag_name : {None} ]

InitRewrite ==
    /\ pc = "lib"
    /\ args \in ArgsRewrite
    /\ file \in Texts
    /\ file0 = file
    /\ changed = FALSE
    /\ exitCode = <<>>
    /\ log = <<>>
    /\ calls = <<>>
    /\ repo = Repo0

CallUpdate ==
    /\ pc = "lib"
    /\ Len(calls) < MaxCalls
    /\ LET r == update_util_version(file, args.version)
       IN  /\ calls' = Append(calls, Call(file, args.version, r))
           /\ file' = r.txt
           /\ log' = IF r.wrote
                     THEN Append(log, Entry("write", UTIL_PATH, FALSE, <<>>, TRUE, <<>>))
                     ELSE log
           /\ IF r.ret = "SystemExit"
              THEN Exit(NotFoundExit) /\ UNCHANGED changed
              ELSE /\ changed' = (r.ret = "True")
                   /\ UNCHANGED <<pc, exitCode>>
    /\ UNCHANGED <<args, file0, repo>>

NextRewrite == CallUpdate

SpecRewrite == InitRewrite /\ [][NextRewrite]_vars

----------------------------------------------------------------------------
(* Properties *)

Issued(op) == {i \in 1..Len(log) : log[i].op = op}

GitOps == {"status", "add", "commit", "tag", "push"}

Mutations == {"write", "add", "commit", "tag", "push"}

\* git status printed at least one changed path and --allow-dirty is absent
DirtyReported ==
    /\ ~args.allow_dirty
    /\ \E i \in Issued("status") : log[i].out # <<>>

\* the run got past the working-tree gate
GatePassed ==
    \/ args.allow_dirty
    \/ \E i \in Issued("status") : log[i].out = <<>>

\* the text holds a declaration one of the two patterns matches
Recognised(txt) ==
    \/ \E i \in 1..Len(txt) : assign_re_match(txt, i).found
    \/ \E i \in 1..Len(txt) : dict_re_match(txt, i).found

\* C1: when git status reports a tracked or untracked change and --allow-dirty
\* is absent, main() exits with code 1, the target file is never written and
\* no git add, commit, tag or push is issued.
C1_DirtyTreeAborts ==
    DirtyReported =>
        /\ pc = "done"
        /\ exitCode = <<1>>
        /\ file = file0
        /\ \A i \in 1..Len(log) : log[i].op \notin Mutations

C1_Witness == DirtyReported /\ pc = "done" /\ file0 = LineAssignDQ

\* C2 as stated: a file matching neither pattern makes the run end with exit
\* code 2, byte-identical file, no commit, tag or push.
C2_Original ==
    ~Recognised(file0) =>
        /\ file = file0
        /\ \A i \in 1..Len(log) : log[i].op \notin Mutations
        /\ pc = "done" => exitCode = <<2>>

\* C2 amended: a file matching neither pattern is left byte-identical and no
\* add, commit, tag or push is performed; the run ends with exit code 2 when
\* it gets past the working-tree gate (--allow-dirty, or git status printing
\* nothing), and with exit code 1 when the gate rejects the tree.
C2_NotFoundExits2 ==
    ~Recognised(file0) =>
        /\ file = file0
        /\ \A i \in 1..Len(log) : log[i].op \notin Mutations
        /\ pc = "done" => exitCode = IF GatePassed THEN <<2>> ELSE <<1>>
        /\ pc \in {"check", "rewrite", "done"}

C2_Witness ==
    /\ ~Recognised(file0)
    /\ pc = "done"
    /\ exitCode = <<2>>
    /\ Len(calls) = 1

\* C3 as stated: every version-control operation (status query, add, commit,
\* tag, push of head, push of tag) that returns non-zero is the last thing
\* the run does: the process exits with code 1 and nothing follows it.
C3_Original ==
    \A i \in 1..Len(log) :
        (log[i].op \in GitOps /\ ~log[i].ok) =>
            /\ i = Len(log)
            /\ pc = "done" => exitCode = <<1>>

BumpVersionTo ==
    <<"B", "u", "m", "p", " ", "v", "e", "r", "s", "i", "o", "n", " ", "t", "o", " ">>

\* the rewrite stage has run and returned this value
Rewrote(ret) == Len(calls) = 1 /\ calls[1].ret = ret

\* C4: the commit stage runs if and only if the rewrite reported a change.
\* With the requested version equal to the current one no git add and no git
\* commit is issued, the tag is still created, on the unchanged head; with a
\* changed value exactly the target file is staged and one commit "Bump
\* version to <version>" is made before the tag is created.
C4_CommitIffChanged ==
    /\ \A i \in Issued("add") \cup Issued("commit") : Rewrote("True") /\ changed
    /\ \A i \in Issued("add") : log[i].arg = UTIL_PATH
    /\ \A i \in Issued("commit") :
          /\ log[i].msg = BumpVersionTo \o args.version
          /\ i > 1 /\ log[i - 1].op = "add" /\ log[i - 1].ok
    /\ Cardinality(Issued("add")) <= 1
    /\ Cardinality(Issued("commit")) <= 1
    /\ (Rewrote("True") /\ pc \notin {"stage"}) => Issued("add") # {}
    /\ \A i \in Issued("tag") :
          IF Rewrote("True")
          THEN /\ \E j \in Issued("commit") : j < i /\ log[j].ok
               /\ repo.commits = 1
          ELSE /\ Rewrote("False")
               /\ Issued("add") = {} /\ Issued("commit") = {}
               /\ repo.commits = 0
    /\ (Rewrote("False") /\ pc \notin {"stage", "tag"}) => Issued("tag") # {}

C4_Witness ==
    /\ Rewrote("False")
    /\ pc = "done"
    /\ exitCode = <<0>>
    /\ Issued("tag") # {}
    /\ Issued("commit") = {}

\* a version string that is not empty and holds no quote and no newline
PlainVersion(v) ==
    /\ v # <<>>
    /\ \A i \in 1..Len(v) : v[i] \notin {SQ, DQ, NL}

\* the k-th call of update_util_version was a no-op reporting "already"
NoOpCall(k) ==
    /\ calls[k].ret = "False"
    /\ ~calls[k].wrote
    /\ calls[k].after = calls[k].before

\* C5 as stated: whenever update_util_version(v) succeeds, calling it again
\* with the same v returns False, writes nothing and never exits with 2.
C5_Original ==
    \A k \in 2..Len(calls) : NoOpCall(k)

\* C5 amended: for a version string v that is not empty and holds no quote
\* character and no newline, whenever update_util_version(v) succeeds, calling
\* it again with the same v returns False, writes nothing and never exits
\* with 2.
C5_IdempotentPlain ==
    PlainVersion(args.version) => \A k \in 2..Len(calls) : NoOpCall(k)

C5_Witness ==
    /\ PlainVersion(args.version)
    /\ Len(calls) >= 2
    /\ calls[1].ret = "True"
    /\ NoOpCall(2)

\* the declaration update_util_version reads in txt: the first match of the
\* assignment pattern, or else of the mapping-entry pattern
Declared(txt) ==
    IF assign_re(txt).found THEN assign_re(txt) ELSE dict_re(txt)

\* after is before with the text strictly between the quotes at q1 and q2
\* replaced by v, and nothing else changed
Spliced(before, after, m, v) ==
    /\ m.found
    /\ IsQuote(before[m.q1]) /\ IsQuote(before[m.q2])
    /\ after = SubSeq(before, 1, m.q1) \o v \o SubSeq(before, m.q2, Len(before))

\* reading the declaration of txt again gives the value v, at the place m
Rereads(txt, m, v) ==
    /\ Declared(txt).found
    /\ Declared(txt).start = m.start
    /\ Declared(txt).q1 = m.q1
    /\ group(txt, Declared(txt), 3) = v

C7_Original ==
    \A i \in Issued("tag") :
        /\ log[i].arg = IF args.tag_name.given /\ args.tag_name.value # <<>>
                        THEN args.tag_name.value ELSE args.version
        /\ log[i].annotated = args.annotated
        /\ log[i].annotated => Contains(log[i].msg, args.version)
        /\ ~log[i].annotated => log[i].msg = <<>>

\* C8: no push is issued unless --push was given and the tag was created;
\* the head is pushed to origin first and the tag second, as two operations;
\* when the head push succeeds and the tag push fails the process exits 1
\* with the remote branch updated and the remote tag absent; when the head
\* push fails the tag push is never attempted.
C8_PushOrder ==
    /\ \A i \in Issued("push") :
          /\ args.push
          /\ log[i].out = ORIGIN
          /\ \E j \in Issued("tag") : j < i /\ log[j].ok
          /\ log[i].arg # HEAD =>
                /\ log[i].arg = log[CHOOSE j \in Issued("tag") : TRUE].arg
                /\ log[i - 1].op = "push" /\ log[i - 1].arg = HEAD /\ log[i - 1].ok
          /\ log[i].arg = HEAD => log[i - 1].op = "tag"
    /\ Cardinality(Issued("push")) <= 2
    /\ \A i \in Issued("push") :
          ~log[i].ok =>
              /\ i = Len(log)
              /\ pc = "done"
              /\ exitCode = <<1>>
              /\ log[i].arg # HEAD =>
                    /\ repo.remoteHead = <<repo.commits>>
                    /\ repo.remoteTags = {}
              /\ log[i].arg = HEAD =>
                    /\ repo.remoteHead = <<>>
                    /\ repo.remoteTags = {}
    /\ (pc = "done" /\ exitCode = <<0>> /\ args.push) =>
          /\ Cardinality(Issued("push")) = 2
          /\ repo.remoteTags = repo.tags

C8_Witness ==
    /\ pc = "done"
    /\ exitCode = <<1>>
    /\ Cardinality(Issued("push")) = 2
    /\ ~log[Len(log)].ok
    /\ repo.remoteHead = <<1>>
    /\ repo.remoteTags = {}

\* C9 as stated: a declaration is recognised only when the opening and the
\* closing quote of its value are the same character; with mismatched quotes
\* the file is treated as pattern-not-found and is never rewritten.
C9_Original ==
    \A k \in 1..Len(calls) :
        calls[k].ret # "SystemExit" =>
            calls[k].before[calls[k].m.q1] = calls[k].before[calls[k].m.q2]

\* the text outside the match m of before is the same in after
OutsideUntouched(before, after, m) ==
    /\ SubSeq(after, 1, m.start - 1) = SubSeq(before, 1, m.start - 1)
    /\ Len(after) >= Len(before) - m.q2
    /\ SubSeq(after, Len(after) - (Len(before) - m.q2) + 1, Len(after))
          = SubSeq(before, m.q2 + 1, Len(before))

\* m is the first match in txt of the pattern named by used
FirstMatchOf(txt, m, used) ==
    /\ m.found
    /\ IF used = "assign"
       THEN /\ assign_re_match(txt, m.start) = m
            /\ \A i \in 1..(m.start - 1) : ~assign_re_match(txt, i).found
       ELSE /\ used = "dict"
            /\ dict_re_match(txt, m.start) = m
            /\ \A i \in 1..(m.start - 1) : ~dict_re_match(txt, i).found

\* C10: the assignment pattern is used whenever it matches anywhere in the
\* file, even after an earlier mapping entry; the mapping-entry pattern only
\* when the assignment pattern matches nowhere; at most the first match of
\* the selected pattern is changed and every other declaration is untouched.
C10_PatternPriority ==
    \A k \in 1..Len(calls) :
        calls[k].ret # "SystemExit" =>
            /\ calls[k].used =
                  IF \E i \in 1..Len(calls[k].before) :
                         assign_re_match(calls[k].before, i).found
                  THEN "assign" ELSE "dict"
            /\ FirstMatchOf(calls[k].before, calls[k].m, calls[k].used)
            /\ OutsideUntouched(calls[k].before, calls[k].after, calls[k].m)

C10_Witness ==
    /\ Len(calls) >= 1
    /\ calls[1].ret = "True"
    /\ calls[1].used = "assign"
    /\ dict_re(calls[1].before).found
    /\ dict_re(calls[1].before).start < calls[1].m.start
    /\ OutsideUntouched(calls[1].before, calls[1].after, calls[1].m)

====
